---- MODULE Spec2Model ----
(***************************************************************************)
(* The agent while-loop of src/src/agent.py (AgentWhileLoop): one run of   *)
(* the agent alternates model invocations and tool dispatches over a       *)
(* growing transcript until the model answers or the iteration cap is hit. *)
(*                                                                         *)
(* Strings are sequences of chunks (a literal piece or an interpolated     *)
(* value is one chunk), so that concatenation and f-string formatting are  *)
(* sequence concatenation.  The empty string is <<>>.                      *)
(* The transcript holds two kinds of Python values, as in the source:      *)
(* dict literals (system, user and tool turns) and the message objects     *)
(* returned by the model client (assistant turns).                         *)
(***************************************************************************)
EXTENDS Integers, Sequences, FiniteSets, TLC

\* ---------------------------------------------------------------- bounds
\* largest configured max_iterations explored
MaxIter == 2
\* largest number of tool calls the model requests in one run, over all its
\* assistant messages
MaxCalls == 3

\* ------------------------------------------------------------ run identity
\* the run invocations explored on the one agent instance
Runs == {"run1"}

\* --------------------------------------------------------- external inputs
\* the queries given to run
Queries == {<<"Why can't john@example.com access pro features?">>}

\* the system prompts an agent is configured with (empty: none)
SystemPrompts == {<<>>, <<"You are a customer service agent.">>}

\* serialized argument payloads the model sends with a tool call
ValidArgs == "{\"email\": \"john@example.com\"}"
BadArgs == "{\"email\": "
\* a payload that deserializes, but not to a mapping
ListArgs == "[\"john@example.com\"]"
ArgPayloads == {ValidArgs, BadArgs, ListArgs}

\* the tool names the model asks for: a registered one and one that no
\* registry entry exists for
UnknownName == "delete_everything"
CallChoices ==
    { [name |-> "search_users", arguments |-> a] : a \in {ValidArgs, BadArgs} }
        \cup { [name |-> UnknownName, arguments |-> ValidArgs] }

\* what a tool's execute does when it is invoked: it returns a ToolResult
\* or it raises
ExecOutcomes == {"return", "raise"}
ExecErrorText == <<"connection reset">>

\* message contents the model produces
NoneContent == [kind |-> "none"]
StrContent(s) == [kind |-> "str", val |-> s]
PartsContent(ps) == [kind |-> "parts", val |-> ps]
AnswerText == <<"Done.">>
ThinkingText == <<"Let me look that up.">>
AnswerParts ==
    << [type |-> "text", text |-> <<"Your plan ">>],
       [type |-> "image_url"],
       [type |-> "text", text |-> <<"is active.">>] >>
FinalContents ==
    {NoneContent, StrContent(<<>>), StrContent(AnswerText), PartsContent(AnswerParts)}
ToolTurnContents == {NoneContent, StrContent(ThinkingText)}

\* ------------------------------------------------------------ tool registry
\* src/src/tools.py get_tools: the tool instances handed to the constructor
get_tools ==
    << [name |-> "notify_customer", cls |-> "NotifyCustomerTool"],
       [name |-> "search_users", cls |-> "SearchUsersTool"],
       [name |-> "get_user_details", cls |-> "GetUserDetailsTool"],
       [name |-> "update_subscription", cls |-> "UpdateSubscriptionTool"] >>

\* a registry built from all tools but the first of the list
BuildRegistrySkipsFirst(ts) ==
    [n \in {ts[i].name : i \in DOMAIN ts \ {1}} |->
        ts[CHOOSE i \in DOMAIN ts \ {1} :
              /\ ts[i].name = n
              /\ \A j \in DOMAIN ts \ {1} : ts[j].name = n => j <= i]]

\* {tool.name: tool for tool in tools}: a later instance of a name replaces
\* an earlier one
BuildRegistry(ts) ==
    [n \in {ts[i].name : i \in DOMAIN ts} |->
        ts[CHOOSE i \in DOMAIN ts :
              /\ ts[i].name = n
              /\ \A j \in DOMAIN ts : ts[j].name = n => j <= i]]

\* ------------------------------------------------------------ pure helpers
\* a truthiness that takes every content but None as true
TruthyUnlessNone(content) == content.kind # "none"

\* Python truthiness of a message content: None, "" and [] are falsy
Truthy(content) ==
    CASE content.kind = "none" -> FALSE
      [] content.kind = "str" -> content.val # <<>>
      [] content.kind = "parts" -> content.val # <<>>

\* the branch on tool calls taken only when the message has no text
HasToolCallsAndNoText(message) ==
    Len(message.tool_calls) > 0 /\ ~Truthy(message.content)

\* message.tool_calls and len(message.tool_calls) > 0: None is falsy, and
\* so is the empty list
HasToolCalls(message) ==
    /\ "tool_calls_none" \notin DOMAIN message
    /\ Len(message.tool_calls) > 0

\* done set by every message without tool calls
SetDoneAlways(d, content) == TRUE

\* elif message.content: done = True
SetDone(d, content) == IF Truthy(content) THEN TRUE ELSE d

\* the while condition, letting one pass too many through
LoopCondOffByOne(d, i, max_iterations) == ~d /\ i <= max_iterations

\* the while condition, without the test of done
LoopCondIgnoresDone(d, i, max_iterations) == i < max_iterations

\* the while condition, without the test of the iteration counter
LoopCondIgnoresCap(d, i, max_iterations) == ~d

\* the while condition, with "or" in the place of "and"
LoopCondEither(d, i, max_iterations) == ~d \/ i < max_iterations

\* the while condition, leaving the loop one pass before the budget is used
LoopCondStopsEarly(d, i, max_iterations) == ~d /\ i + 1 < max_iterations

\* the while condition
LoopCond(d, i, max_iterations) == ~d /\ i < max_iterations

\* "".join(part.get("text", "") if "text" in part else "" for part in content)
RECURSIVE JoinParts(_)
JoinParts(parts) ==
    IF parts = <<>> THEN <<>>
    ELSE (IF "text" \in DOMAIN Head(parts) THEN Head(parts).text ELSE <<>>)
            \o JoinParts(Tail(parts))

\* the answer text taken from the first part only of a content in parts
ExtractContentFirstPart(content) ==
    IF content.kind = "str" THEN content.val
    ELSE IF "text" \in DOMAIN Head(content.val) THEN Head(content.val).text
    ELSE <<>>

\* the answer text taken from the last message
ExtractContent(content) ==
    IF content.kind = "str" THEN content.val ELSE JoinParts(content.val)

\* the fixed fallback text, with max_iterations formatted into it
FallbackMessage(max_iterations) ==
    <<"Agent reached maximum iterations (", ToString(max_iterations),
      ") without completing the task.">>

\* json.loads of an argument payload: a dict, or an exception
JsonLoads(raw) ==
    CASE raw = ValidArgs ->
            [raised |-> FALSE, kind |-> "dict",
             value |-> [email |-> "john@example.com"]]
      [] raw = ListArgs ->
            [raised |-> FALSE, kind |-> "list", value |-> <<"john@example.com">>]
      [] OTHER ->
            [raised |-> TRUE,
             error |-> <<"Expecting value: line 1 column 11 (char 10)">>]

\* execute(**arguments) with the test of the argument's type left out
IsMappingUnchecked(arguments) == TRUE

\* execute(**arguments): the argument after ** must be a mapping, or
\* TypeError is raised before execute is entered
IsMapping(arguments) == arguments.kind = "dict"
NotMappingErrorText == <<"argument after ** must be a mapping, not list">>

\* json.dumps of a ToolResult
JsonDumps(res) ==
    <<"{\"success\": ", IF res.success THEN "true" ELSE "false",
      ", \"message\": \"">> \o res.message
        \o <<"\", \"data\": ", IF res.data = "None" THEN "null" ELSE res.data, "}">>

\* what a registered tool returns when its execute succeeds
ToolReturn(tool) ==
    [success |-> TRUE, message |-> <<"Found 1 users">>,
     data |-> "{\"users\": [...], \"count\": 1}"]

\* an execution failure whose message leaves the error text out
ErrorResultNoText(tool_name, err) ==
    [success |-> FALSE, message |-> <<"Error executing ", tool_name>>, data |-> "None"]

UnknownToolResult(tool_name) ==
    [success |-> FALSE, message |-> <<"Unknown tool: ", tool_name>>, data |-> "None"]

ErrorResult(tool_name, err) ==
    [success |-> FALSE, message |-> <<"Error executing ", tool_name, ": ">> \o err,
     data |-> "None"]

\* _execute_tool without the registry test: the lookup of an unknown name
\* raises KeyError inside the try block
execute_tool_no_registry_test(registry, tool_call, outcome) ==
    LET tool_name == tool_call.function.name
        span_name == <<"tool_execution_", tool_name>>
        arguments == JsonLoads(tool_call.function.arguments)
        known == tool_name \in DOMAIN registry
        mapping == ~arguments.raised /\ IsMapping(arguments)
        err == IF arguments.raised THEN arguments.error
               ELSE IF ~known THEN <<"'", tool_name, "'">>
               ELSE IF ~mapping THEN NotMappingErrorText
               ELSE ExecErrorText
    IN  IF ~mapping \/ ~known \/ outcome = "raise"
        THEN [result |-> ErrorResult(tool_name, err),
              executed |-> mapping /\ known,
              span |-> <<[name |-> span_name, error |-> err]>>]
        ELSE [result |-> ToolReturn(registry[tool_name]),
              executed |-> TRUE,
              span |-> <<[name |-> span_name, input |-> arguments.value,
                          output |-> ToolReturn(registry[tool_name])]>>]

\* _execute_tool: the ToolResult returned, whether the tool's execute was
\* invoked, and what the tool_execution span logged
execute_tool(registry, tool_call, outcome) ==
    LET tool_name == tool_call.function.name
        span_name == <<"tool_execution_", tool_name>>
    IN  IF tool_name \notin DOMAIN registry
        THEN [result |-> UnknownToolResult(tool_name), executed |-> FALSE,
              span |-> <<>>]
        ELSE LET arguments == JsonLoads(tool_call.function.arguments)
             IN  IF arguments.raised
                 THEN [result |-> ErrorResult(tool_name, arguments.error),
                       executed |-> FALSE,
                       span |-> <<[name |-> span_name, error |-> arguments.error]>>]
                 ELSE IF ~IsMapping(arguments)
                 THEN [result |-> ErrorResult(tool_name, NotMappingErrorText),
                       executed |-> FALSE,
                       span |-> <<[name |-> span_name, error |-> NotMappingErrorText]>>]
                 ELSE IF outcome = "raise"
                 THEN [result |-> ErrorResult(tool_name, ExecErrorText),
                       executed |-> TRUE,
                       span |-> <<[name |-> span_name, error |-> ExecErrorText]>>]
                 ELSE [result |-> ToolReturn(registry[tool_name]),
                       executed |-> TRUE,
                       span |-> <<[name |-> span_name, input |-> arguments.value,
                                   output |-> ToolReturn(registry[tool_name])]>>]

\* ------------------------------------------------------- transcript entries
SystemTurn(prompt) == [obj |-> "dict", role |-> "system", content |-> StrContent(prompt)]
UserTurn(query) == [obj |-> "dict", role |-> "user", content |-> StrContent(query)]
\* a tool turn that carries the identifier of the message's first call
ToolTurnFirstId(tool_call, tool_result) ==
    [obj |-> "dict", role |-> "tool",
     tool_call_id |-> <<tool_call.id[1], tool_call.id[2], 1>>,
     content |-> StrContent(JsonDumps(tool_result))]

ToolTurn(tool_call, tool_result) ==
    [obj |-> "dict", role |-> "tool", tool_call_id |-> tool_call.id,
     content |-> StrContent(JsonDumps(tool_result))]
AssistantMessage(content, tool_calls) ==
    [obj |-> "message", role |-> "assistant", content |-> content,
     tool_calls |-> tool_calls]

\* an assistant message whose tool_calls attribute is None: it has no call
\* to iterate over, and the field tool_calls_none marks the attribute as None
AssistantMessageNoToolCalls(content) ==
    [obj |-> "message", role |-> "assistant", content |-> content,
     tool_calls |-> <<>>, tool_calls_none |-> TRUE]

\* a transcript that always opens with a system turn
SeedTranscriptAlwaysSystem(system_prompt, query) ==
    <<SystemTurn(system_prompt), UserTurn(query)>>

\* messages = [], the system turn if a system prompt is configured, then the
\* user turn
SeedTranscript(system_prompt, query) ==
    (IF system_prompt # <<>> THEN <<SystemTurn(system_prompt)>> ELSE <<>>)
        \o <<UserTurn(query)>>

\* an append that replaces the last entry
AppendMessageOverLast(msgs, m) == [msgs EXCEPT ![Len(msgs)] = m]

\* messages.append(m)
AppendMessage(msgs, m) == Append(msgs, m)

\* the tool calls of an assistant message produced in iteration it, for the
\* names and payloads fs the model chose: call identifiers are distinct
\* within and across messages
ToolCalls(fs, it) ==
    [i \in DOMAIN fs |-> [id |-> <<"call", it, i>>, function |-> fs[i]]]

\* the names and payloads of the tool calls of one assistant message
CallChoiceSeqs == UNION { [1..k -> CallChoices] : k \in 0..MaxCalls }

\* what the model may answer with: text (or nothing) without tool calls, or
\* tool calls with or without text
ModelTurns ==
    { <<c, <<>>>> : c \in FinalContents }
        \cup { <<c, <<>>, "None">> : c \in FinalContents }
        \cup { <<c, fs>> : c \in ToolTurnContents, fs \in CallChoiceSeqs \ {<<>>} }

NoMessage == AssistantMessage(NoneContent, <<>>)
NoResult == [kind |-> "none"]
EmptyDict == [k \in {} |-> 0]

\* ---------------------------------------------------------------- state
VARIABLES
    tools,        \* self.tools: name -> tool instance
    options,      \* self.options
    pc,           \* per run: position in run
    messages,     \* per run: the transcript
    iteration,    \* per run
    done,         \* per run
    tools_used,   \* per run
    message,      \* per run: the assistant message of the current iteration
    tc_idx,       \* per run: position of the for loop in message.tool_calls
    result,       \* per run: what run returned or raised
    hooks,        \* per run: hooks.metadata of the hooks object given to run
    metrics,      \* per run: metrics logged on the root span at return
    llm_calls,    \* per run: number of model invocations made
    dispatch_log, \* per run: the calls given to _execute_tool, and whether and
                  \* how the tool's execute ran
    span_log,     \* per run: records logged by tool_execution spans
    tool_list,    \* the tools argument of the constructor
    tool_result,  \* per run: what the last _execute_tool returned
    query_arg,    \* per run: the query argument of run
    llm_input     \* per run: the transcript given to the last model invocation

vars == <<tools, options, pc, messages, iteration, done, tools_used, message,
          tc_idx, result, hooks, metrics, llm_calls, dispatch_log, span_log,
          tool_list, tool_result, query_arg, llm_input>>

Init ==
    /\ tool_list = get_tools
    /\ tools = BuildRegistry(tool_list)
    /\ options \in [max_iterations : 1..MaxIter, system_prompt : SystemPrompts]
    /\ pc = [r \in Runs |-> "idle"]
    /\ messages = [r \in Runs |-> <<>>]
    /\ iteration = [r \in Runs |-> 0]
    /\ done = [r \in Runs |-> FALSE]
    /\ tools_used = [r \in Runs |-> <<>>]
    /\ message = [r \in Runs |-> NoMessage]
    /\ tc_idx = [r \in Runs |-> 0]
    /\ result = [r \in Runs |-> NoResult]
    /\ hooks = [r \in Runs |-> EmptyDict]
    /\ metrics = [r \in Runs |-> EmptyDict]
    /\ llm_calls = [r \in Runs |-> 0]
    /\ dispatch_log = [r \in Runs |-> <<>>]
    /\ span_log = [r \in Runs |-> <<>>]
    /\ tool_result = [r \in Runs |-> NoResult]
    /\ query_arg = [r \in Runs |-> <<>>]
    /\ llm_input = [r \in Runs |-> <<>>]

\* --------------------------------------------------------------- actions
\* run is entered, the transcript being an attribute of the agent instance
\* that every run of the instance uses
StartSharedTranscript(r, query) ==
    /\ pc[r] = "idle"
    /\ query_arg' = [query_arg EXCEPT ![r] = query]
    /\ messages' = [r2 \in DOMAIN messages |->
            SeedTranscript(options.system_prompt, query)]
    /\ iteration' = [iteration EXCEPT ![r] = 0]
    /\ done' = [done EXCEPT ![r] = FALSE]
    /\ tools_used' = [tools_used EXCEPT ![r] = <<>>]
    /\ pc' = [pc EXCEPT ![r] = "while"]
    /\ UNCHANGED <<tools, options, message, tc_idx, result, hooks, metrics,
                   llm_calls, dispatch_log, span_log, tool_list, tool_result,
                   llm_input>>

\* run is entered: the transcript is seeded and the loop variables are set
Start(r, query) ==
    /\ pc[r] = "idle"
    /\ query_arg' = [query_arg EXCEPT ![r] = query]
    /\ messages' = [messages EXCEPT ![r] =
            SeedTranscript(options.system_prompt, query)]
    /\ iteration' = [iteration EXCEPT ![r] = 0]
    /\ done' = [done EXCEPT ![r] = FALSE]
    /\ tools_used' = [tools_used EXCEPT ![r] = <<>>]
    /\ pc' = [pc EXCEPT ![r] = "while"]
    /\ UNCHANGED <<tools, options, message, tc_idx, result, hooks, metrics,
                   llm_calls, dispatch_log, span_log, tool_list, tool_result,
                   llm_input>>

\* one model invocation that returns: the assistant message is appended and
\* the branch on its tool calls and content is taken
GetLLMResponse(r, turn) ==
    /\ pc[r] = "while"
    \* the model asks for at most MaxCalls tool calls in a run
    /\ Len(dispatch_log[r]) + Len(turn[2]) <= MaxCalls
    /\ LoopCond(done[r], iteration[r], options.max_iterations)
    /\ LET msg == IF Len(turn) = 3
                  THEN AssistantMessageNoToolCalls(turn[1])
                  ELSE AssistantMessage(turn[1], ToolCalls(turn[2], iteration[r]))
       IN  /\ message' = [message EXCEPT ![r] = msg]
           /\ messages' = [messages EXCEPT ![r] = AppendMessage(@, msg)]
           /\ IF HasToolCalls(msg)
              THEN /\ pc' = [pc EXCEPT ![r] = "for"]
                   /\ tc_idx' = [tc_idx EXCEPT ![r] = 1]
                   /\ UNCHANGED <<done, iteration>>
              ELSE /\ done' = [done EXCEPT ![r] = SetDone(@, msg.content)]
                   /\ iteration' = [iteration EXCEPT ![r] = @ + 1]
                   /\ UNCHANGED <<pc, tc_idx>>
    /\ llm_calls' = [llm_calls EXCEPT ![r] = @ + 1]
    /\ llm_input' = [llm_input EXCEPT ![r] = messages[r]]
    /\ UNCHANGED <<tools, options, tools_used, result, hooks, metrics,
                   dispatch_log, span_log, tool_list, tool_result, query_arg>>

\* one model invocation that fails and is tried again
LLMFailureRetried(r) ==
    /\ pc[r] = "while"
    /\ LoopCond(done[r], iteration[r], options.max_iterations)
    /\ llm_calls' = [llm_calls EXCEPT ![r] = @ + 1]
    /\ llm_input' = [llm_input EXCEPT ![r] = messages[r]]
    /\ UNCHANGED <<tools, options, pc, result, messages, iteration, done,
                   tools_used, message, tc_idx, hooks, metrics, dispatch_log,
                   span_log, tool_list, tool_result, query_arg>>

\* one model invocation that fails: the error leaves run
LLMFailure(r) ==
    /\ pc[r] = "while"
    /\ LoopCond(done[r], iteration[r], options.max_iterations)
    /\ llm_calls' = [llm_calls EXCEPT ![r] = @ + 1]
    /\ pc' = [pc EXCEPT ![r] = "raised"]
    /\ result' = [result EXCEPT ![r] =
            [kind |-> "raised", error |-> "ModelInvocationError"]]
    /\ llm_input' = [llm_input EXCEPT ![r] = messages[r]]
    /\ UNCHANGED <<tools, options, messages, iteration, done, tools_used,
                   message, tc_idx, hooks, metrics, dispatch_log, span_log,
                   tool_list, tool_result, query_arg>>

\* a log that keeps each tool name once
AppendToolUsedOnce(log, tool_call) ==
    IF \E i \in DOMAIN log : log[i] = tool_call.function.name
    THEN log ELSE Append(log, tool_call.function.name)

\* tools_used.append(tool_call.function.name)
AppendToolUsed(log, tool_call) == Append(log, tool_call.function.name)

\* the for loop moves to the next tool call of the message, or is over
ForLoopOver(idx, tool_calls) == idx >= Len(tool_calls)

\* one pass of the for loop: the tool call is dispatched, its name logged and
\* its tool turn appended; after the last call the iteration is counted
ExecuteToolCall(r, outcome) ==
    /\ pc[r] = "for"
    /\ LET tool_call == message[r].tool_calls[tc_idx[r]]
           ex == execute_tool(tools, tool_call, outcome)
       IN  /\ tools_used' = [tools_used EXCEPT ![r] = AppendToolUsed(@, tool_call)]
           /\ messages' = [messages EXCEPT ![r] =
                    AppendMessage(@, ToolTurn(tool_call, ex.result))]
           /\ tool_result' = [tool_result EXCEPT ![r] = ex.result]
           /\ dispatch_log' = [dispatch_log EXCEPT ![r] =
                    Append(@, [id |-> tool_call.id,
                               name |-> tool_call.function.name,
                               arguments |-> tool_call.function.arguments,
                               executed |-> ex.executed,
                               outcome |-> IF ex.executed THEN outcome ELSE "none"])]
           /\ span_log' = [span_log EXCEPT ![r] = @ \o ex.span]
    /\ IF ForLoopOver(tc_idx[r], message[r].tool_calls)
       THEN /\ iteration' = [iteration EXCEPT ![r] = @ + 1]
            /\ pc' = [pc EXCEPT ![r] = "while"]
            /\ UNCHANGED tc_idx
       ELSE /\ tc_idx' = [tc_idx EXCEPT ![r] = @ + 1]
            /\ UNCHANGED <<iteration, pc>>
    /\ UNCHANGED <<tools, options, done, message, result, hooks, metrics,
                   llm_calls, tool_list, query_arg, llm_input>>

\* last_message.role: a dict entry has no attribute role
HasRoleAttribute(entry) == entry.obj = "message"

\* the names of a log, each kept once
RECURSIVE DistinctNames(_)
DistinctNames(log) ==
    IF log = <<>> THEN <<>>
    ELSE LET rest == DistinctNames(SubSeq(log, 1, Len(log) - 1))
             last == log[Len(log)]
         IN  IF \E i \in DOMAIN rest : rest[i] = last THEN rest
             ELSE Append(rest, last)

\* hooks.metadata["tools_used"] set to the distinct names
SetToolsUsedDistinct(metadata, log) ==
    [k \in DOMAIN metadata \cup {"tools_used"} |->
        IF k = "tools_used" THEN DistinctNames(log) ELSE metadata[k]]

\* hooks.metadata["tools_used"] = tools_used
SetToolsUsed(metadata, log) ==
    [k \in DOMAIN metadata \cup {"tools_used"} |->
        IF k = "tools_used" THEN log ELSE metadata[k]]

\* the loop is left: the last transcript entry decides what run gives back
Finish(r) ==
    /\ pc[r] = "while"
    /\ ~LoopCond(done[r], iteration[r], options.max_iterations)
    /\ LET last_message == messages[r][Len(messages[r])]
       IN  IF ~HasRoleAttribute(last_message)
           THEN /\ pc' = [pc EXCEPT ![r] = "raised"]
                /\ result' = [result EXCEPT ![r] =
                        [kind |-> "raised", error |-> "AttributeError"]]
                /\ UNCHANGED <<hooks, metrics>>
           ELSE IF last_message.role = "assistant" /\ Truthy(last_message.content)
           THEN /\ hooks' = [hooks EXCEPT ![r] = SetToolsUsed(@, tools_used[r])]
                /\ metrics' = [metrics EXCEPT ![r] =
                        [total_iterations |-> iteration[r]]]
                /\ result' = [result EXCEPT ![r] =
                        [kind |-> "returned",
                         value |-> ExtractContent(last_message.content)]]
                /\ pc' = [pc EXCEPT ![r] = "returned"]
           ELSE /\ metrics' = [metrics EXCEPT ![r] =
                        [total_iterations |-> iteration[r],
                         max_iterations_reached |-> 1]]
                /\ result' = [result EXCEPT ![r] =
                        [kind |-> "returned",
                         value |-> FallbackMessage(options.max_iterations)]]
                /\ pc' = [pc EXCEPT ![r] = "returned"]
                /\ UNCHANGED hooks
    /\ UNCHANGED <<tools, options, messages, iteration, done, tools_used,
                   message, tc_idx, llm_calls, dispatch_log, span_log,
                   tool_list, tool_result, query_arg, llm_input>>

\* --------------------------------------------- the dispatcher on its own
\* collections of tool instances an agent is constructed with: three of the
\* repository's tools, and a collection in which a second tool class uses the
\* name search_users
DispatchCollections ==
    { { [name |-> "notify_customer", cls |-> "NotifyCustomerTool"],
        [name |-> "search_users", cls |-> "SearchUsersTool"],
        [name |-> "get_user_details", cls |-> "GetUserDetailsTool"] },
      { [name |-> "search_users", cls |-> "SearchUsersTool"],
        [name |-> "search_users", cls |-> "CachedSearchUsersTool"] } }

\* the lists that hold the instances of a collection, each once, in any order
Orderings(c) ==
    { ts \in [1..Cardinality(c) -> c] :
        \A i, j \in 1..Cardinality(c) : i # j => ts[i] # ts[j] }

DispatchToolLists == UNION { Orderings(c) : c \in DispatchCollections }

\* the calls given to the dispatcher: two tool names of the repository and
\* an unknown one, with every kind of payload
DispatchChoices ==
    { [name |-> n, arguments |-> a] :
        n \in {"search_users", "notify_customer", UnknownName}, a \in ArgPayloads }

\* AgentOptions() with its defaults for max_iterations and system_prompt
DefaultOptions == [max_iterations |-> 10, system_prompt |-> <<>>]

InitDispatch ==
    /\ tool_list \in DispatchToolLists
    /\ tools = BuildRegistry(tool_list)
    /\ options = DefaultOptions
    /\ pc = [r \in Runs |-> "idle"]
    /\ messages = [r \in Runs |-> <<>>]
    /\ iteration = [r \in Runs |-> 0]
    /\ done = [r \in Runs |-> FALSE]
    /\ tools_used = [r \in Runs |-> <<>>]
    /\ message = [r \in Runs |-> NoMessage]
    /\ tc_idx = [r \in Runs |-> 0]
    /\ result = [r \in Runs |-> NoResult]
    /\ hooks = [r \in Runs |-> EmptyDict]
    /\ metrics = [r \in Runs |-> EmptyDict]
    /\ llm_calls = [r \in Runs |-> 0]
    /\ dispatch_log = [r \in Runs |-> <<>>]
    /\ span_log = [r \in Runs |-> <<>>]
    /\ tool_result = [r \in Runs |-> NoResult]
    /\ query_arg = [r \in Runs |-> <<>>]
    /\ llm_input = [r \in Runs |-> <<>>]

\* one call of _execute_tool with the tool call fn, the tool's execute
\* behaving as outcome says
DispatchCall(r, fn, outcome) ==
    /\ Len(dispatch_log[r]) < MaxCalls
    /\ LET tool_call == [id |-> <<"call", 0, Len(dispatch_log[r]) + 1>>,
                         function |-> fn]
           ex == execute_tool(tools, tool_call, outcome)
       IN  /\ tool_result' = [tool_result EXCEPT ![r] = ex.result]
           /\ dispatch_log' = [dispatch_log EXCEPT ![r] =
                    Append(@, [id |-> tool_call.id,
                               name |-> tool_call.function.name,
                               arguments |-> tool_call.function.arguments,
                               executed |-> ex.executed,
                               outcome |-> IF ex.executed THEN outcome ELSE "none"])]
           /\ span_log' = [span_log EXCEPT ![r] = @ \o ex.span]
    /\ UNCHANGED <<tools, options, pc, messages, iteration, done, tools_used,
                   message, tc_idx, result, hooks, metrics, llm_calls,
                   tool_list, query_arg, llm_input>>

NextDispatch ==
    \E r \in Runs, fn \in DispatchChoices, outcome \in ExecOutcomes :
        DispatchCall(r, fn, outcome)

SpecDispatch == InitDispatch /\ [][NextDispatch]_vars

Next ==
    \/ \E r \in Runs, q \in Queries : Start(r, q)
    \/ \E r \in Runs, turn \in ModelTurns : GetLLMResponse(r, turn)
    \/ \E r \in Runs : LLMFailure(r)
    \/ \E r \in Runs, outcome \in ExecOutcomes : ExecuteToolCall(r, outcome)
    \/ \E r \in Runs : Finish(r)

Spec == Init /\ [][Next]_vars

\* ------------------------------- runs that interleave on one agent instance
\* two calls of run on the same instance, each with a query of its own
ConcurrentRuns == {"run1", "run2"}
ConcurrentQueries ==
    [r \in ConcurrentRuns |->
        IF r = "run1" THEN <<"Why can't john@example.com access pro features?">>
        ELSE <<"Upgrade jane@example.com to the pro plan.">>]

\* what the model answers to each run: run1 is given a call to search_users
\* or a text answer, run2 a call to an unknown tool with text or an answer in
\* parts
ConcurrentTurns ==
    [r \in ConcurrentRuns |->
        IF r = "run1"
        THEN { <<StrContent(AnswerText), <<>>>>,
               <<NoneContent, <<[name |-> "search_users", arguments |-> ValidArgs]>>>> }
        ELSE { <<PartsContent(AnswerParts), <<>>>>,
               <<StrContent(ThinkingText),
                 <<[name |-> UnknownName, arguments |-> ValidArgs]>>>> }]

InitConcurrent ==
    /\ tool_list = get_tools
    /\ tools = BuildRegistry(tool_list)
    /\ options \in [max_iterations : {MaxIter}, system_prompt : SystemPrompts]
    /\ pc = [r \in ConcurrentRuns |-> "idle"]
    /\ messages = [r \in ConcurrentRuns |-> <<>>]
    /\ iteration = [r \in ConcurrentRuns |-> 0]
    /\ done = [r \in ConcurrentRuns |-> FALSE]
    /\ tools_used = [r \in ConcurrentRuns |-> <<>>]
    /\ message = [r \in ConcurrentRuns |-> NoMessage]
    /\ tc_idx = [r \in ConcurrentRuns |-> 0]
    /\ result = [r \in ConcurrentRuns |-> NoResult]
    /\ hooks = [r \in ConcurrentRuns |-> EmptyDict]
    /\ metrics = [r \in ConcurrentRuns |-> EmptyDict]
    /\ llm_calls = [r \in ConcurrentRuns |-> 0]
    /\ dispatch_log = [r \in ConcurrentRuns |-> <<>>]
    /\ span_log = [r \in ConcurrentRuns |-> <<>>]
    /\ tool_result = [r \in ConcurrentRuns |-> NoResult]
    /\ query_arg = [r \in ConcurrentRuns |-> <<>>]
    /\ llm_input = [r \in ConcurrentRuns |-> <<>>]

\* the runs take their steps in any interleaving: a run is suspended at its
\* model invocation and at each tool execution
NextConcurrent ==
    \/ \E r \in ConcurrentRuns : Start(r, ConcurrentQueries[r])
    \/ \E r \in ConcurrentRuns : \E turn \in ConcurrentTurns[r] : GetLLMResponse(r, turn)
    \/ \E r \in ConcurrentRuns : LLMFailure(r)
    \/ \E r \in ConcurrentRuns, outcome \in ExecOutcomes : ExecuteToolCall(r, outcome)
    \/ \E r \in ConcurrentRuns : Finish(r)

SpecConcurrent == InitConcurrent /\ [][NextConcurrent]_vars

\* the model turns whose tool calls all reach a tool's execute: any number
\* of calls, with or without text
FairTurns ==
    { turn \in ModelTurns :
        \A i \in DOMAIN turn[2] :
            turn[2][i] = [name |-> "search_users", arguments |-> ValidArgs] }

NextFair ==
    \/ \E r \in Runs, q \in Queries : Start(r, q)
    \/ \E r \in Runs, turn \in FairTurns : GetLLMResponse(r, turn)
    \/ \E r \in Runs : LLMFailure(r)
    \/ \E r \in Runs, outcome \in ExecOutcomes : ExecuteToolCall(r, outcome)
    \/ \E r \in Runs : Finish(r)

\* every await of run (the model invocation, a tool execution) returns or
\* raises, so a run that can take a step takes one
FairSpec == Init /\ [][NextFair]_vars /\ WF_vars(NextFair)

TypeOK ==
    /\ DOMAIN tools = {"notify_customer", "search_users", "get_user_details",
                       "update_subscription"}
    /\ \A r \in Runs :
        /\ pc[r] \in {"idle", "while", "for", "returned", "raised"}
        /\ iteration[r] \in 0..(MaxIter + 1)
        /\ done[r] \in BOOLEAN
        /\ result[r].kind \in {"none", "returned", "raised"}

\* ------------------------------------------------- reading the transcript
\* positions of the assistant messages
AssistantIdx(msgs) == {i \in DOMAIN msgs : msgs[i].obj = "message"}

\* positions of the tool turns
ToolIdx(msgs) == {i \in DOMAIN msgs : msgs[i].obj = "dict" /\ msgs[i].role = "tool"}

\* position of the first assistant message
FirstAssistantIdx(msgs) ==
    CHOOSE i \in AssistantIdx(msgs) : \A j \in AssistantIdx(msgs) : i <= j

\* position of the last assistant message
LastAssistantIdx(msgs) ==
    CHOOSE i \in AssistantIdx(msgs) : \A j \in AssistantIdx(msgs) : j <= i

Terminated(r) == pc[r] \in {"returned", "raised"}

ModelFailed(r) ==
    result[r].kind = "raised" /\ result[r].error = "ModelInvocationError"

ReturnedFallback(r) ==
    /\ pc[r] = "returned"
    /\ result[r].kind = "returned"
    /\ "max_iterations_reached" \in DOMAIN metrics[r]

ReturnedAnswer(r) ==
    /\ pc[r] = "returned"
    /\ result[r].kind = "returned"
    /\ "max_iterations_reached" \notin DOMAIN metrics[r]

\* ------------------------------------------------------------------ C1
\* C1: in every run the iteration counter never exceeds max_iterations (so
\* it is at most max_iterations at termination), and the total_iterations
\* metric logged at return equals the number of loop iterations executed:
\* one per model invocation that returned, each of which left one assistant
\* message in the transcript.
C1_IterationBoundedAndReported ==
    \A r \in Runs :
        /\ iteration[r] <= options.max_iterations
        /\ pc[r] = "returned" =>
              /\ metrics[r].total_iterations = Cardinality(AssistantIdx(messages[r]))
              /\ metrics[r].total_iterations = llm_calls[r]
              /\ metrics[r].total_iterations = iteration[r]

\* a run that returned after two iterations, the first of which ran tools
C1_Witness ==
    \E r \in Runs :
        /\ pc[r] = "returned"
        /\ options.max_iterations = 2
        /\ metrics[r].total_iterations = 2
        /\ tools_used[r] # <<>>

\* ------------------------------------------------------------------ C2
\* C2: if every assistant message of a run requested at least one tool call
\* (and no model invocation failed), the run ends after exactly
\* max_iterations iterations by returning the fallback message, with the
\* max_iterations_reached metric logged.
C2_AlwaysToolCallsReturnsFallback ==
    \A r \in Runs :
        ( /\ Terminated(r)
          /\ ~ModelFailed(r)
          /\ \A i \in AssistantIdx(messages[r]) : HasToolCalls(messages[r][i]) )
        => /\ iteration[r] = options.max_iterations
           /\ result[r].kind = "returned"
           /\ result[r].value = FallbackMessage(options.max_iterations)
           /\ "max_iterations_reached" \in DOMAIN metrics[r]

\* ------------------------------------------------------------------ C3
\* C3: every run that ends returned a string (the answer or the fallback)
\* or raised the error of a failed model invocation; no other error leaves
\* run.
C3_ThreeWaysToEnd ==
    \A r \in Runs :
        Terminated(r) =>
            \/ result[r].kind = "returned"
            \/ ModelFailed(r)

\* ------------------------------------------------------------------ C4
\* C4: whenever run has returned (answer or fallback), hooks.metadata holds
\* tools_used, equal to the names of the tool calls dispatched in the run.
C4_ToolsUsedWrittenOnReturn ==
    \A r \in Runs :
        pc[r] = "returned" =>
            /\ "tools_used" \in DOMAIN hooks[r]
            /\ hooks[r].tools_used =
                  [i \in DOMAIN dispatch_log[r] |-> dispatch_log[r][i].name]

\* ------------------------------------------------------------------ C5
\* C5: if the first assistant message has no tool calls and a non-empty
\* string content, the run makes exactly one model invocation and one
\* iteration, executes no tool, raises nothing, and what it returns is that
\* string unchanged.
C5_FirstAnswerEndsRun ==
    \A r \in Runs :
        AssistantIdx(messages[r]) # {} =>
            LET first == messages[r][FirstAssistantIdx(messages[r])]
            IN  ( /\ ~HasToolCalls(first)
                  /\ first.content.kind = "str"
                  /\ first.content.val # <<>> )
                => /\ llm_calls[r] = 1
                   /\ iteration[r] = 1
                   /\ dispatch_log[r] = <<>>
                   /\ Cardinality(AssistantIdx(messages[r])) = 1
                   /\ pc[r] \in {"while", "returned"}
                   /\ pc[r] = "returned" =>
                         /\ result[r] = [kind |-> "returned", value |-> AnswerText]
                         /\ result[r].value = first.content.val
                         /\ "max_iterations_reached" \notin DOMAIN metrics[r]

\* a run that returned the text of its first and only assistant message,
\* with an iteration budget that would have allowed a second invocation
C5_Witness ==
    \E r \in Runs :
        /\ pc[r] = "returned"
        /\ options.max_iterations = 2
        /\ llm_calls[r] = 1
        /\ result[r].value = AnswerText

\* ------------------------------------------- more reading of the transcript
\* the tool calls requested by the assistant messages, in request order
RECURSIVE RequestedCalls(_)
RequestedCalls(msgs) ==
    IF msgs = <<>> THEN <<>>
    ELSE (IF Head(msgs).obj = "message" THEN Head(msgs).tool_calls ELSE <<>>)
            \o RequestedCalls(Tail(msgs))

IsToolTurn(m) == m.obj = "dict" /\ m.role = "tool"

\* the tool turns, in transcript order
ToolTurns(msgs) == SelectSeq(msgs, IsToolTurn)

\* the names registered by the constructor
RegisteredNames ==
    {"notify_customer", "search_users", "get_user_details", "update_subscription"}

\* the assistant message at position p is directly followed by one tool turn
\* for each of its first n calls, in request order
FollowedByTurns(msgs, p, n) ==
    /\ p + n <= Len(msgs)
    /\ \A i \in 1..n :
          /\ IsToolTurn(msgs[p + i])
          /\ msgs[p + i].tool_call_id = msgs[p].tool_calls[i].id

\* the assistant message at position p has all its tool turns directly after
\* it, and nothing but an assistant message follows them
TurnComplete(msgs, p) ==
    LET k == Len(msgs[p].tool_calls)
    IN  /\ FollowedByTurns(msgs, p, k)
        /\ p + k + 1 <= Len(msgs) => msgs[p + k + 1].obj = "message"

\* run r is in the for loop over the tool calls of the message at position p
InProgress(r, p) == pc[r] = "for" /\ p = LastAssistantIdx(messages[r])

\* the step taken dispatches a tool call of run r
DispatchStep(r) == Len(dispatch_log'[r]) = Len(dispatch_log[r]) + 1

\* after the dispatch of a call the for loop goes on with the next call of
\* the message, or the iteration is counted and the while loop goes on
LoopContinues(r) ==
    /\ result'[r] = NoResult
    /\ Len(messages'[r]) = Len(messages[r]) + 1
    /\ IF tc_idx[r] < Len(message[r].tool_calls)
       THEN /\ pc'[r] = "for"
            /\ tc_idx'[r] = tc_idx[r] + 1
            /\ iteration'[r] = iteration[r]
       ELSE /\ pc'[r] = "while"
            /\ iteration'[r] = iteration[r] + 1

UnknownToolText(name) ==
    <<"{\"success\": ", "false", ", \"message\": \"", "Unknown tool: ", name,
      "\", \"data\": ", "null", "}">>

ExecutionErrorText(name) ==
    <<"{\"success\": ", "false", ", \"message\": \"", "Error executing ", name,
      ": ", "connection reset", "\", \"data\": ", "null", "}">>

\* ------------------------------------------------------------------ C6
\* the i-th dispatched call of run r, if it names an unregistered tool, ran
\* no execute and has the i-th tool turn, which carries its identifier and
\* the serialized {success: false, message: "Unknown tool: <name>", data: null}
C6_UnknownRecorded(r) ==
    LET calls == RequestedCalls(messages[r])
        turns == ToolTurns(messages[r])
    IN  \A i \in DOMAIN turns :
            calls[i].function.name \notin RegisteredNames =>
                /\ turns[i].tool_call_id = calls[i].id
                /\ turns[i].content = StrContent(UnknownToolText(calls[i].function.name))
                /\ dispatch_log[r][i].id = calls[i].id
                /\ ~dispatch_log[r][i].executed

C6_UnknownStep(r) ==
    ( /\ DispatchStep(r)
      /\ message[r].tool_calls[tc_idx[r]].function.name \notin RegisteredNames )
    => LoopContinues(r)

\* C6: a tool call naming an unregistered tool gets the result
\* {success: false, message: "Unknown tool: <name>", data: null}, recorded as
\* the tool turn of that call; no execute is invoked for it, nothing is
\* raised, and the loop goes on with the remaining calls and iterations.
C6_UnknownTool ==
    /\ [](\A r \in Runs : C6_UnknownRecorded(r))
    /\ [][\A r \in Runs : C6_UnknownStep(r)]_vars

\* an unknown tool was the first of two calls of a message, the second call
\* was dispatched too, and the run went on to a second iteration
C6_Witness ==
    \E r \in Runs :
        /\ Len(dispatch_log[r]) >= 2
        /\ dispatch_log[r][1].name = UnknownName
        /\ dispatch_log[r][2].executed
        /\ dispatch_log[r][2].id[2] = dispatch_log[r][1].id[2]
        /\ llm_calls[r] = 2

\* ------------------------------------------------------------------ C7
\* a call whose execute raised has its tool turn, carrying its identifier
\* and the serialized "Error executing <name>: <error text>" failure
C7_FailureRecorded(r) ==
    LET turns == ToolTurns(messages[r])
    IN  \A i \in DOMAIN dispatch_log[r] :
            dispatch_log[r][i].outcome = "raise" =>
                /\ i \in DOMAIN turns
                /\ turns[i].tool_call_id = dispatch_log[r][i].id
                /\ turns[i].content =
                      StrContent(ExecutionErrorText(dispatch_log[r][i].name))

\* an assistant message one of whose calls raised has a tool turn for every
\* one of its calls once its for loop is over
C7_SiblingsDispatched(r) ==
    \A p \in AssistantIdx(messages[r]) :
        ( /\ ~InProgress(r, p)
          /\ \E i \in DOMAIN dispatch_log[r], j \in DOMAIN messages[r][p].tool_calls :
                /\ dispatch_log[r][i].outcome = "raise"
                /\ dispatch_log[r][i].id = messages[r][p].tool_calls[j].id )
        => /\ TurnComplete(messages[r], p)
           /\ \A j \in DOMAIN messages[r][p].tool_calls :
                 \E i \in DOMAIN dispatch_log[r] :
                    dispatch_log[r][i].id = messages[r][p].tool_calls[j].id

C7_FailureStep(r) ==
    ( /\ DispatchStep(r)
      /\ dispatch_log'[r][Len(dispatch_log'[r])].outcome = "raise" )
    => LoopContinues(r)

\* C7: when a tool's execute raises, the call gets the result
\* {success: false, message: "Error executing <name>: <error text>",
\* data: null}; every other call of the same assistant message is dispatched
\* and has its own tool turn, wherever the failing call stands among them;
\* and the loop goes on to the next call or the next iteration.
C7_ExecuteRaises ==
    /\ [](\A r \in Runs : C7_FailureRecorded(r) /\ C7_SiblingsDispatched(r))
    /\ [][\A r \in Runs : C7_FailureStep(r)]_vars

\* the second of three calls of one message raised, the calls before and
\* after it ran and returned, and a second model invocation followed
C7_Witness ==
    \E r \in Runs :
        /\ Len(dispatch_log[r]) = 3
        /\ dispatch_log[r][1].outcome = "return"
        /\ dispatch_log[r][2].outcome = "raise"
        /\ dispatch_log[r][3].outcome = "return"
        /\ dispatch_log[r][3].id[2] = dispatch_log[r][1].id[2]
        /\ llm_calls[r] = 2

\* ------------------------------------------------------------------ C8
\* every assistant message is directly followed by the tool turns of its
\* calls in request order: all of them once its for loop is over, the ones
\* dispatched so far while it runs
C8_TurnsInRequestOrder(r) ==
    \A p \in AssistantIdx(messages[r]) :
        IF InProgress(r, p)
        THEN /\ Len(messages[r]) - p < Len(messages[r][p].tool_calls)
             /\ FollowedByTurns(messages[r], p, Len(messages[r]) - p)
        ELSE TurnComplete(messages[r], p)

\* a model invocation is made only when every earlier assistant message has
\* all its tool turns
C8_InvocationStep(r) ==
    llm_calls'[r] # llm_calls[r] =>
        \A p \in AssistantIdx(messages[r]) : TurnComplete(messages[r], p)

\* C8: an assistant message with k >= 1 tool calls is directly followed by
\* exactly k tool turns, the i-th carrying the identifier of the i-th
\* requested call, and all k are in the transcript before the next model
\* invocation.
C8_ToolTurnsFollowRequest ==
    /\ [](\A r \in Runs : C8_TurnsInRequestOrder(r))
    /\ [][\A r \in Runs : C8_InvocationStep(r)]_vars

\* a message with two calls got its two tool turns and the model was
\* invoked again
C8_Witness ==
    \E r \in Runs :
        LET p == FirstAssistantIdx(messages[r])
        IN  /\ llm_calls[r] = 2
            /\ Len(messages[r][p].tool_calls) = 2
            /\ messages[r][p + 1].tool_call_id # messages[r][p + 2].tool_call_id
            /\ messages[r][p + 3].obj = "message"

\* ------------------------------------------------------------------ C9
\* C9: at every point of a run tools_used is the sequence of the names of
\* the tool calls dispatched so far, in request order across iterations, one
\* entry per call: repeated names are kept, and calls that failed or named an
\* unknown tool are included.
C9_ToolsUsedIsDispatchOrder ==
    \A r \in Runs :
        LET calls == RequestedCalls(messages[r])
            n == Len(ToolTurns(messages[r]))
        IN  /\ n <= Len(calls)
            /\ Len(dispatch_log[r]) = n
            /\ \A i \in 1..n : dispatch_log[r][i].id = calls[i].id
            /\ tools_used[r] = [i \in 1..n |-> calls[i].function.name]

\* three calls over two iterations: a tool that raised, an unknown tool, and
\* the first tool once more
C9_Witness ==
    \E r \in Runs :
        /\ tools_used[r] = <<"search_users", UnknownName, "search_users">>
        /\ dispatch_log[r][1].outcome = "raise"
        /\ iteration[r] = 2

\* ------------------------------------------------------------------ C10
\* the model is invoked at most once per iteration; a failed invocation ends
\* the run with the model's error and nothing else
C10_NoRetry(r) ==
    /\ llm_calls[r] <= iteration[r] + 1
    /\ llm_calls[r] = iteration[r] + 1 => pc[r] \in {"for", "raised"}
    /\ ModelFailed(r) =>
          /\ pc[r] = "raised"
          /\ llm_calls[r] = Cardinality(AssistantIdx(messages[r])) + 1
          /\ metrics[r] = EmptyDict

\* once the model invocation has failed nothing more happens in the run
C10_FatalStep(r) ==
    ModelFailed(r) =>
        /\ llm_calls'[r] = llm_calls[r]
        /\ dispatch_log'[r] = dispatch_log[r]
        /\ messages'[r] = messages[r]
        /\ result'[r] = result[r]
        /\ pc'[r] = pc[r]

\* C10: a failed model invocation is fatal and propagated: the model is
\* invoked at most once per iteration (no retry), and after a failure there
\* is no further model invocation and no tool execution in the run, and
\* neither an answer nor the fallback is returned.
C10_ModelFailureIsFatal ==
    /\ [](\A r \in Runs : C10_NoRetry(r))
    /\ [][\A r \in Runs : C10_FatalStep(r)]_vars

\* the second model invocation of a run failed, after tools had run
C10_Witness ==
    \E r \in Runs :
        /\ ModelFailed(r)
        /\ llm_calls[r] = 2
        /\ dispatch_log[r] # <<>>
        /\ iteration[r] < options.max_iterations

\* ------------------------------------------------------------------ C11
\* the assistant message at position p carries tool calls and non-empty text
CallsAndText(msgs, p) ==
    /\ Len(msgs[p].tool_calls) > 0
    /\ msgs[p].content.kind = "str"
    /\ msgs[p].content.val # <<>>

\* C11: an assistant message with both tool calls and non-empty text is
\* treated as a tool-calling message: all its calls are dispatched (each has
\* its tool turn once the for loop is over), done is not set by it, the
\* model may be invoked again when iterations are left, and its text is not
\* what the run returns as the answer of that iteration.
C11_ToolCallsTakePriority ==
    \A r \in Runs :
        \A p \in AssistantIdx(messages[r]) :
            CallsAndText(messages[r], p) =>
                /\ ~InProgress(r, p) => TurnComplete(messages[r], p)
                /\ p = LastAssistantIdx(messages[r]) =>
                      /\ ~done[r]
                      /\ ( pc[r] = "while" /\ iteration[r] < options.max_iterations )
                            => LoopCond(done[r], iteration[r], options.max_iterations)
                /\ result[r].kind = "returned" =>
                      result[r].value # messages[r][p].content.val

\* a message with text and two tool calls had both calls dispatched and was
\* followed by a second model invocation
C11_Witness ==
    \E r \in Runs :
        LET p == FirstAssistantIdx(messages[r])
        IN  /\ llm_calls[r] = 2
            /\ CallsAndText(messages[r], p)
            /\ Len(messages[r][p].tool_calls) = 2
            /\ Len(dispatch_log[r]) = 2
            /\ Cardinality(AssistantIdx(messages[r])) = 2

\* ------------------------------------------------------------------ C12
\* the model asked for tool calls on every turn but the last, and the last
\* turn is non-empty text without tool calls
ToolsThenAnswer(msgs) ==
    /\ AssistantIdx(msgs) # {}
    /\ LET n == LastAssistantIdx(msgs)
       IN  /\ Len(msgs[n].tool_calls) = 0
           /\ msgs[n].content.kind = "str"
           /\ msgs[n].content.val # <<>>
           /\ \A p \in AssistantIdx(msgs) \ {n} : Len(msgs[p].tool_calls) > 0

\* C12: if the model requests tool calls on turns 1..n-1 and answers with
\* non-empty text and no tool calls on turn n <= max_iterations, the run
\* does not raise and what it returns is that text, with total_iterations = n
\* and tools_used the names of the calls of turns 1..n-1 in request order.
C12_ToolsThenAnswer ==
    \A r \in Runs :
        ToolsThenAnswer(messages[r]) =>
            LET n == Cardinality(AssistantIdx(messages[r]))
                last == messages[r][LastAssistantIdx(messages[r])]
                calls == RequestedCalls(messages[r])
            IN  /\ n <= options.max_iterations
                /\ pc[r] \in {"while", "returned"}
                /\ pc[r] = "returned" =>
                      /\ result[r].kind = "returned"
                      /\ result[r].value = last.content.val
                      /\ metrics[r] = [total_iterations |-> n]
                      /\ hooks[r].tools_used =
                            [i \in DOMAIN calls |-> calls[i].function.name]

\* max_iterations = 2, turn 1 requests search_users, turn 2 is "Done.": the
\* run returned "Done." with total_iterations 2 and tools_used
\* [search_users]
C12_Witness ==
    \E r \in Runs :
        /\ options.max_iterations = 2
        /\ pc[r] = "returned"
        /\ result[r].value = <<"Done.">>
        /\ metrics[r].total_iterations = 2
        /\ hooks[r].tools_used = <<"search_users">>

\* ------------------------------------------------------------------ C13
IsPrefix(a, b) == Len(a) <= Len(b) /\ SubSeq(b, 1, Len(a)) = a
IsStrictPrefix(a, b) == Len(a) < Len(b) /\ SubSeq(b, 1, Len(a)) = a

\* entering run gives the run a transcript holding nothing but its seed
C13_FreshStep(r) ==
    ( pc[r] = "idle" /\ pc'[r] # "idle" ) =>
        /\ Len(messages'[r]) \in {1, 2}
        /\ \A i \in DOMAIN messages'[r] :
              /\ messages'[r][i].obj = "dict"
              /\ messages'[r][i].role \in {"system", "user"}

\* once the run is entered a step leaves every entry in place and at most
\* adds entries at the end
C13_AppendStep(r) ==
    pc[r] # "idle" => IsPrefix(messages[r], messages'[r])

\* a model invocation is given the whole transcript, which extends the one
\* given to the invocation before it
C13_InvocationStep(r) ==
    llm_calls'[r] # llm_calls[r] =>
        /\ llm_input'[r] = messages[r]
        /\ llm_calls[r] >= 1 => IsStrictPrefix(llm_input[r], llm_input'[r])

\* C13: the transcript of a run starts with nothing but the seed turns when
\* run is entered, every later step only appends to it (no entry is
\* removed, moved or rewritten), and the transcript given to a model
\* invocation has the one given to the previous invocation as a strict
\* prefix, so it holds all earlier assistant and tool turns.
C13_TranscriptAppendOnly ==
    [][\A r \in Runs :
        C13_FreshStep(r) /\ C13_AppendStep(r) /\ C13_InvocationStep(r)]_vars

\* a second model invocation was given a transcript that holds the first
\* assistant message and its two tool turns
C13_Witness ==
    \E r \in Runs :
        /\ llm_calls[r] = 2
        /\ Len(ToolTurns(llm_input[r])) = 2
        /\ Cardinality(AssistantIdx(llm_input[r])) = 1

\* ------------------------------------------------------------------ C14
\* what the first model invocation of run r is to be given
C14_FirstTranscript(r) ==
    LET system == [obj |-> "dict", role |-> "system",
                   content |-> [kind |-> "str", val |-> options.system_prompt]]
        user == [obj |-> "dict", role |-> "user",
                 content |-> [kind |-> "str", val |-> query_arg[r]]]
    IN  IF options.system_prompt = <<>> THEN <<user>> ELSE <<system, user>>

C14_FirstInvocationStep(r) ==
    ( llm_calls[r] = 0 /\ llm_calls'[r] = 1 ) =>
        llm_input'[r] = C14_FirstTranscript(r)

\* a system turn stands only at the head of the transcript, and only when
\* a system prompt is configured
C14_SystemTurnOnlyFirst(r) ==
    \A i \in DOMAIN messages[r] :
        ( messages[r][i].obj = "dict" /\ messages[r][i].role = "system" ) =>
            i = 1 /\ options.system_prompt # <<>>

\* C14: the first model invocation is given exactly [system turn, user turn]
\* when the configured system prompt is non-empty and exactly [user turn]
\* when it is empty, the user turn holding the query; no system turn is
\* appended later in the run.
C14_SeedTranscript ==
    /\ [](\A r \in Runs : C14_SystemTurnOnlyFirst(r))
    /\ [][\A r \in Runs : C14_FirstInvocationStep(r)]_vars

\* without a system prompt a run went through two model invocations and its
\* transcript opens with the user turn, followed by an assistant message
C14_Witness ==
    \E r \in Runs :
        /\ options.system_prompt = <<>>
        /\ llm_calls[r] = 2
        /\ messages[r][1].role = "user"
        /\ messages[r][2].obj = "message"

\* ------------------------------------------------------------------ C15
\* C15: every dispatched tool call has its observability record, whatever
\* the outcome (success, execute raising, malformed arguments, unknown
\* tool): the tool_execution spans logged one record per dispatched call,
\* the i-th one under the name of the i-th call.
C15_EveryDispatchLogged ==
    \A r \in Runs :
        /\ Len(span_log[r]) = Len(dispatch_log[r])
        /\ \A i \in DOMAIN span_log[r] :
              span_log[r][i].name = <<"tool_execution_", dispatch_log[r][i].name>>

\* ------------------------------------------------------------------ C16
\* the last call given to the dispatcher by run r
LastDispatch(r) == dispatch_log[r][Len(dispatch_log[r])]

\* C16: when the arguments of a call to a registered tool do not deserialize
\* to keyword arguments (the payload is invalid, or it is not a mapping), the
\* tool's execute is not invoked and the dispatcher returns (it does not
\* raise) the failed result of an execution failure,
\* {success: false, message: "Error executing <name>: ...", data: null}.
C16_MalformedArguments ==
    \A r \in Runs :
        ( /\ dispatch_log[r] # <<>>
          /\ LastDispatch(r).name \in DOMAIN tools
          /\ LastDispatch(r).arguments \in {BadArgs, ListArgs} )
        => /\ ~LastDispatch(r).executed
           /\ tool_result[r].success = FALSE
           /\ tool_result[r].data = "None"
           /\ Len(tool_result[r].message) > 3
           /\ SubSeq(tool_result[r].message, 1, 3) =
                 <<"Error executing ", LastDispatch(r).name, ": ">>

\* a registered tool was called with an invalid payload and then with a
\* payload that is a list, and the second call got a failed result
C16_Witness ==
    \E r \in Runs :
        /\ Len(dispatch_log[r]) = 2
        /\ dispatch_log[r][1].name = "search_users"
        /\ dispatch_log[r][1].arguments = BadArgs
        /\ dispatch_log[r][2].name = "search_users"
        /\ dispatch_log[r][2].arguments = ListArgs
        /\ tool_result[r].success = FALSE

\* ------------------------------------------------------------------ C17
\* the step taken is a model invocation of run r
InvocationStep(r) == llm_calls'[r] = llm_calls[r] + 1

\* the step taken ends a pass of the loop body of run r
PassEnds(r) ==
    /\ pc'[r] = "while"
    /\ pc[r] = "for" \/ InvocationStep(r)

\* C17: every run terminates when each model invocation and each tool
\* execution returns or raises: a pass of the loop body increases the
\* iteration counter by one, nothing else changes it, the model is invoked
\* only while done is false and iteration is below max_iterations, and so at
\* most max_iterations model invocations are made.
C17_RunTerminates ==
    /\ <>(\A r \in Runs : Terminated(r))
    /\ [](\A r \in Runs : llm_calls[r] <= options.max_iterations)
    /\ [][\A r \in Runs :
            /\ PassEnds(r) => iteration'[r] = iteration[r] + 1
            /\ iteration'[r] # iteration[r] =>
                  (pc[r] = "idle" \/ iteration'[r] = iteration[r] + 1)
            /\ InvocationStep(r) =>
                  (~done[r] /\ iteration[r] < options.max_iterations)
            /\ Terminated(r) => pc'[r] = pc[r]]_vars

\* a run ended after max_iterations = MaxIter passes, each with a model
\* invocation, and the last pass executed a tool
C17_Witness ==
    \E r \in Runs :
        /\ Terminated(r)
        /\ options.max_iterations = MaxIter
        /\ iteration[r] = MaxIter
        /\ llm_calls[r] = MaxIter
        /\ dispatch_log[r] # <<>>

\* ------------------------------------------------------------------ C18
\* no two instances of the list have the same name
DistinctToolNames(ts) ==
    \A i, j \in DOMAIN ts : i # j => ts[i].name # ts[j].name

\* the last dispatch of run r, had the agent been constructed with the list
\* ts, resolves to the same tool and yields the same result
SameDispatch(r, ts) ==
    LET e == LastDispatch(r)
        tool_call == [id |-> e.id,
                      function |-> [name |-> e.name, arguments |-> e.arguments]]
        outcome == IF e.outcome = "none" THEN "return" ELSE e.outcome
        registry == BuildRegistry(ts)
    IN  /\ (e.name \in DOMAIN registry) = (e.name \in DOMAIN tools)
        /\ e.name \in DOMAIN tools => registry[e.name] = tools[e.name]
        /\ execute_tool(registry, tool_call, outcome).result = tool_result[r]

\* C18 as stated: for any two orderings of the same collection of tool
\* instances given to the constructor, every dispatch by name resolves to
\* the same tool and yields the same result.
C18_OrderIrrelevant ==
    \A r \in Runs :
        dispatch_log[r] # <<>> =>
            \A ts \in Orderings({tool_list[i] : i \in DOMAIN tool_list}) :
                SameDispatch(r, ts)

\* C18, amended: for any two orderings of the same collection of tool
\* instances with pairwise distinct names, every dispatch by name resolves
\* to the same tool and yields the same result.
C18_OrderIrrelevantDistinctNames ==
    \A r \in Runs :
        (dispatch_log[r] # <<>> /\ DistinctToolNames(tool_list)) =>
            \A ts \in Orderings({tool_list[i] : i \in DOMAIN tool_list}) :
                SameDispatch(r, ts)

\* the agent was constructed with three tools of distinct names, search_users
\* first in the list, and a call to search_users was executed and succeeded
C18_Witness ==
    \E r \in Runs :
        /\ Len(tool_list) = 3
        /\ DistinctToolNames(tool_list)
        /\ tool_list[1].name = "search_users"
        /\ dispatch_log[r] # <<>>
        /\ LastDispatch(r).name = "search_users"
        /\ LastDispatch(r).executed
        /\ tool_result[r].success

\* ------------------------------------------------------------------ C19
\* the names and payloads of the calls of an assistant message
CallFunctions(m) == [i \in DOMAIN m.tool_calls |-> m.tool_calls[i].function]

\* the tool turn that the dispatch e of a run gave
OwnToolTurn(e) ==
    LET tool_call == [id |-> e.id,
                      function |-> [name |-> e.name, arguments |-> e.arguments]]
        outcome == IF e.outcome = "none" THEN "return" ELSE e.outcome
    IN  ToolTurn(tool_call, execute_tool(tools, tool_call, outcome).result)

\* the transcript of run r holds the query of r, assistant messages that the
\* model gave to r and the tool turns of the dispatches of r, and the loop
\* variables of r follow from the steps of r
OwnState(r) ==
    LET msgs == messages[r]
        users == {i \in DOMAIN msgs : msgs[i].obj = "dict" /\ msgs[i].role = "user"}
    IN  /\ Cardinality(users) = 1
        /\ \A i \in users : msgs[i] = UserTurn(ConcurrentQueries[r])
        /\ query_arg[r] = ConcurrentQueries[r]
        /\ \A i \in AssistantIdx(msgs) :
              <<msgs[i].content, CallFunctions(msgs[i])>> \in ConcurrentTurns[r]
        /\ Cardinality(AssistantIdx(msgs)) =
              llm_calls[r] - (IF ModelFailed(r) THEN 1 ELSE 0)
        /\ Len(ToolTurns(msgs)) = Len(dispatch_log[r])
        /\ \A i \in DOMAIN dispatch_log[r] :
              ToolTurns(msgs)[i] = OwnToolTurn(dispatch_log[r][i])
        /\ tools_used[r] = [i \in DOMAIN dispatch_log[r] |-> dispatch_log[r][i].name]
        /\ iteration[r] <= llm_calls[r]
        /\ done[r] = (\E i \in AssistantIdx(msgs) :
                        msgs[i].tool_calls = <<>> /\ Truthy(msgs[i].content))

\* the transcript and the loop variables of run r
RunLocals(r) == <<messages[r], iteration[r], done[r], tools_used[r]>>

\* C19: runs that interleave on one agent instance share no transcript,
\* iteration counter, done flag or tools_used log: the transcript of a run
\* holds only its own query, assistant messages and tool turns, a step of one
\* run leaves the transcript and the loop variables of the other runs as
\* they are, and no step modifies the tool registry.
C19_RunsShareNothing ==
    /\ [](\A r \in ConcurrentRuns : pc[r] # "idle" => OwnState(r))
    /\ [][ /\ tools' = tools
           /\ \A r, r2 \in ConcurrentRuns :
                 (r # r2 /\ RunLocals(r)' # RunLocals(r))
                    => RunLocals(r2)' = RunLocals(r2) ]_vars

\* both runs are suspended at a tool execution of their second pass, each
\* with a tool turn of its first pass in its transcript
C19_Witness ==
    /\ DOMAIN pc = ConcurrentRuns
    /\ \A r \in ConcurrentRuns :
          /\ pc[r] = "for"
          /\ iteration[r] = 1
          /\ Len(dispatch_log[r]) = 1

\* ------------------------------------------------------------------ C20
\* the text field of a part, the empty string for a part without one
TextOf(part) == IF "text" \in DOMAIN part THEN part.text ELSE <<>>

\* the texts of the first n parts, one after the other in part order
RECURSIVE TextsUpTo(_, _)
TextsUpTo(parts, n) ==
    IF n = 0 THEN <<>> ELSE TextsUpTo(parts, n - 1) \o TextOf(parts[n])

\* C20: when a run returns an answer, the returned text is derived from the
\* last transcript entry only: a plain-string content is returned verbatim,
\* a content in parts is returned as the concatenation, in part order, of
\* the text fields of the parts, a part without a text field contributing
\* the empty string.
C20_AnswerExtraction ==
    \A r \in Runs :
        ReturnedAnswer(r) =>
            LET last_message == messages[r][Len(messages[r])]
            IN  /\ last_message.obj = "message"
                /\ last_message.content.kind \in {"str", "parts"}
                /\ last_message.content.kind = "str" =>
                      result[r].value = last_message.content.val
                /\ last_message.content.kind = "parts" =>
                      result[r].value =
                          TextsUpTo(last_message.content.val,
                                    Len(last_message.content.val))
                /\ last_message.content = PartsContent(AnswerParts) =>
                      result[r].value = <<"Your plan ", "is active.">>

\* a run returned an answer given in parts, one of them without a text
\* field, after an earlier assistant message with text of its own
C20_Witness ==
    \E r \in Runs :
        /\ ReturnedAnswer(r)
        /\ messages[r][Len(messages[r])].content = PartsContent(AnswerParts)
        /\ \E i \in AssistantIdx(messages[r]) :
              /\ i < Len(messages[r])
              /\ messages[r][i].content = StrContent(ThinkingText)

\* ------------------------------------------------------------------ C21
\* the content is a string or a list of parts that is not empty
NonEmptyContent(content) ==
    /\ content.kind \in {"str", "parts"}
    /\ content.val # <<>>

\* C21: run returns a final answer (rather than the fallback) if and only if
\* done is true at loop exit; when it does, the last transcript entry is the
\* assistant message of the final iteration, that message had no tool calls
\* and non-empty content, and no tool turn follows it.
C21_AnswerIffDone ==
    \A r \in Runs :
        /\ pc[r] = "returned" => (ReturnedAnswer(r) <=> done[r])
        /\ (Terminated(r) /\ done[r]) => ReturnedAnswer(r)
        /\ ReturnedAnswer(r) =>
              LET last_message == messages[r][Len(messages[r])]
              IN  /\ last_message = message[r]
                  /\ last_message.obj = "message"
                  /\ Len(last_message.tool_calls) = 0
                  /\ NonEmptyContent(last_message.content)
                  /\ ToolIdx(messages[r]) \subseteq 1..(Len(messages[r]) - 1)
                  /\ llm_calls[r] = iteration[r]

\* a run returned an answer in its second iteration, after an iteration
\* that executed a tool
C21_Witness ==
    \E r \in Runs :
        /\ ReturnedAnswer(r)
        /\ done[r]
        /\ iteration[r] = 2
        /\ ToolIdx(messages[r]) # {}

\* ------------------------------------------------------------------ C22
\* an assistant message with neither tool calls (tool_calls None or the
\* empty list) nor non-empty content
EmptyMessage(m) ==
    /\ m.obj = "message"
    /\ Len(m.tool_calls) = 0
    /\ ~NonEmptyContent(m.content)

C23_DoneIsFinal ==
    [][\A r \in Runs :
        /\ done[r] =>
              /\ done'[r]
              /\ llm_calls'[r] = llm_calls[r]
              /\ dispatch_log'[r] = dispatch_log[r]
              /\ span_log'[r] = span_log[r]
              /\ messages'[r] = messages[r]
        /\ (~done[r] /\ done'[r]) =>
              /\ InvocationStep(r)
              /\ iteration'[r] = iteration[r] + 1
              /\ message'[r] = messages'[r][Len(messages'[r])]
              /\ Len(message'[r].tool_calls) = 0
              /\ dispatch_log'[r] = dispatch_log[r]]_vars

\* done was set in the second iteration, after an iteration that executed
\* two tools, and the run then returned
C23_Witness ==
    \E r \in Runs :
        /\ done[r]
        /\ pc[r] = "returned"
        /\ iteration[r] = 2
        /\ Len(dispatch_log[r]) = 2
        /\ llm_calls[r] = 2

\* ------------------------------------------------------------------ C24
\* run r returned the fixed fallback text
FallbackText(r) ==
    /\ pc[r] = "returned"
    /\ result[r].kind = "returned"
    /\ result[r].value = FallbackMessage(options.max_iterations)

\* C24: whenever run returns the fallback message (and logs the
\* max_iterations_reached metric), the iteration counter equals
\* max_iterations and done is false: the fallback is never produced before
\* the iteration budget is exhausted.
C24_FallbackOnlyAtBudget ==
    \A r \in Runs :
        /\ FallbackText(r) <=> ReturnedFallback(r)
        /\ ReturnedFallback(r) =>
              /\ iteration[r] = options.max_iterations
              /\ llm_calls[r] = options.max_iterations
              /\ ~done[r]
              /\ metrics[r].total_iterations = options.max_iterations

\* a run with a budget of two iterations executed a tool in the first, was
\* given a message without tool calls and content in the second, and
\* returned the fallback
C24_Witness ==
    \E r \in Runs :
        /\ ReturnedFallback(r)
        /\ options.max_iterations = 2
        /\ dispatch_log[r] # <<>>
        /\ ~done[r]
====
